---- MODULE Spec2Model ----
(***************************************************************************)
(* The websocket rendezvous server of magic-wormhole                       *)
(* (src/wormhole/server/rendezvous_websocket.py): one WebSocketRendezvous  *)
(* protocol object per connection, driving the per-app channel registry.   *)
(* The registry itself (the app and channel objects the protocol calls     *)
(* into) lives in another file of the repository and is modelled from the  *)
(* written specification: the Directory and Mailbox of its sections 3, 4.2 *)
(* and 4.3.                                                                *)
(***************************************************************************)
EXTENDS Bags, FiniteSets, Integers, Sequences, TLC

\* ------------------------------------------------------------------ bounds
Sessions == {"s1", "s2"}        \* the connections that may be opened
Apps == {"x", "y"}              \* application ids a client may bind to
Sides == {"a", "b"}             \* side strings a client may bind with
Bodies == {"aa"}          \* hex bodies a client may add
MaxChannel == 2                 \* channel ids in use are "1".."MaxChannel"
MaxTime == 2                    \* add commands accepted before the clock stops

None == "None"                  \* Python's None

\* str(n) for the small positive integers the allocator produces
Digits == <<"1", "2", "3", "4", "5", "6", "7", "8", "9">>
Str(n) == Digits[n]

ChannelIds == {Str(n) : n \in 1..MaxChannel}

\* sorted() on unicode strings: the position of a one-digit string in
\* lexicographic order
Rank(c) == CHOOSE n \in 1..Len(Digits) : Digits[n] = c

EmptyMap == [k \in {} |-> 0]    \* {}
Without(f, k) == [j \in DOMAIN f \ {k} |-> f[j]]    \* del f[k]

\* ---------------------------------------------------------------- messages
\* Inbound JSON objects, as functions from the keys present to their values.
WithId(m) == m @@ ("id" :> "id7")

Messages ==
       {[channelid |-> "1"], WithId([channelid |-> "1"])}      \* no "type"
  \cup {WithId([type |-> "bogus"])}
  \cup {[type |-> "ping", ping |-> 5], WithId([type |-> "ping", ping |-> 5]),
        [type |-> "ping"]}
  \cup {[type |-> "bind", appid |-> a, side |-> sd] : a \in Apps, sd \in Sides}
  \cup {WithId([type |-> "bind", appid |-> "x", side |-> "a"]),
        [type |-> "bind", appid |-> "x"], [type |-> "bind", side |-> "a"]}
  \cup {[type |-> "list"], WithId([type |-> "list"])}
  \cup {[type |-> "allocate"], WithId([type |-> "allocate"])}
  \cup {[type |-> t, channelid |-> c] : t \in {"claim", "watch", "release"},
                                        c \in ChannelIds}
  \cup {WithId([type |-> t, channelid |-> "1"]) : t \in {"claim", "watch"}}
  \cup {WithId([type |-> "release", channelid |-> "1", mood |-> "happy"])}
  \cup {[type |-> t] : t \in {"claim", "watch", "release", "add"}}
  \cup {WithId([type |-> "watch"])}
  \cup {WithId([type |-> "add", channelid |-> "1", phase |-> "pake",
                body |-> b]) : b \in Bodies}
  \cup {[type |-> "add", channelid |-> c, phase |-> "pake", body |-> b] :
            c \in ChannelIds \ {"1"}, b \in Bodies}
  \cup {[type |-> "add", channelid |-> "1", body |-> "aa"],
        [type |-> "add", channelid |-> "1", phase |-> "pake"]}

Has(msg, k) == k \in DOMAIN msg             \* k in msg
Get(msg, k) == IF k \in DOMAIN msg THEN msg[k] ELSE None    \* msg.get(k)

\* ------------------------------------------------------------------- state
VARIABLES
  conn,          \* per session: "connecting", "open" or "closed"
  app,           \* per session: self._app (the app id bound to, or None)
  side,          \* per session: self._side
  did_allocate,  \* per session: self._did_allocate
  channels,      \* per session: self._channels, channel id -> Mailbox object
  mailboxes,     \* per app: the Directory, channel id -> Mailbox object
  heap,          \* the Mailbox objects in memory, by object name
  delayed,       \* the sessions with a callLater(0, loseConnection) pending
  now,           \* the server clock read by onMessage
  out,           \* per session: the responses the last step handed to
                 \* self.sendMessage, in order
  recv,          \* per session and channel id: the "message" events written
                 \* to it under its subscription, those its latest watch
                 \* replayed and those forwarded since
  freed,         \* the server_rx stamps of the messages whose log was freed
                 \* when its Mailbox was deleted
  outstanding,   \* per app and channel id: the claims answered without
                 \* error that were not repeats, minus the releases answered
  last           \* the event handled last and the state it found

vars == <<conn, app, side, did_allocate, channels, mailboxes, heap, delayed, now,
          out, recv, freed, outstanding, last>>

\* The state a handler reads and rebuilds; sent collects the calls of
\* self.send in order and exc the exception that left the handler.
NoExc == [kind |-> "none"]
Error(explain) == [kind |-> "Error", explain |-> explain]
KeyError(k) == [kind |-> "KeyError", key |-> k]

Current ==
  [app |-> app, side |-> side, did_allocate |-> did_allocate,
   channels |-> channels, mailboxes |-> mailboxes, heap |-> heap,
   delayed |-> delayed, sent |-> <<>>, exc |-> NoExc]

raise(st, e) == [st EXCEPT !.exc = e]

\* WebSocketRendezvous.send: one response written to session s
send(st, s, resp) == [st EXCEPT !.sent = Append(@, [to |-> s, resp |-> resp])]

\* ------------------------------------------------- Directory and Mailbox
\* A Mailbox object: the claim multiset, the message log and the subscriber
\* set of one channel id of one app.
Mailbox(a, c) ==
  [appid |-> a, channelid |-> c, claims |-> EmptyBag, messages |-> <<>>,
   listeners |-> {}]

\* Directory allocation: the smallest positive integer, as a string, that is
\* not a key of the app's mailbox map.
find_available_channelid(st, a) ==
  Str(CHOOSE n \in 1..(MaxChannel + 1) :
        /\ Str(n) \notin DOMAIN st.mailboxes[a]
        /\ \A m \in 1..(n - 1) : Str(m) \in DOMAIN st.mailboxes[a])

\* The name of a new object: <<a, c, k>> is the k-th Mailbox object for
\* channel id c of app a that is in memory at the same time.
NewName(st, a, c) ==
  <<a, c, CHOOSE k \in 1..(Cardinality(Sessions) + 1) :
            /\ <<a, c, k>> \notin DOMAIN st.heap
            /\ \A j \in 1..(k - 1) : <<a, c, j>> \in DOMAIN st.heap>>

\* Directory claim: creates the Mailbox if absent and adds one entry for the
\* side to its claim multiset. The Mailbox claimed is st'.mailboxes[a][c].
claim_channel(st, a, c, sd) ==
  LET new == NewName(st, a, c)
      st1 == IF c \in DOMAIN st.mailboxes[a] THEN st
             ELSE [st EXCEPT !.heap = (new :> Mailbox(a, c)) @@ @,
                             !.mailboxes[a] = (c :> new) @@ @]
      o == st1.mailboxes[a][c]
  IN [st1 EXCEPT !.heap[o].claims = @ (+) SetToBag({sd})]

\* Directory list: the channel ids whose claim multiset holds exactly one
\* distinct side.
get_claimed(st, a) ==
  {c \in DOMAIN st.mailboxes[a] :
      Cardinality(BagToSet(st.heap[st.mailboxes[a][c]].claims)) = 1}

\* sorted(): ascending sequence of a set of channel ids
RECURSIVE sorted(_)
sorted(S) ==
  IF S = {} THEN <<>>
  ELSE LET lo == CHOOSE c \in S : \A d \in S : Rank(c) <= Rank(d)
       IN <<lo>> \o sorted(S \ {lo})

\* _send of handle_watch: the callback a subscriber registers
_send(st, s, channelid, event) ==
  send(st, s, [type |-> "message", channelid |-> channelid, message |-> event])

\* (mutant) the close signal schedules nothing
_stop_ignored(st, s) == st

\* _stop of handle_watch: schedules the connection loss for a later turn
_stop(st, s) == [st EXCEPT !.delayed = @ \cup {s}]

\* Mailbox subscribe: registers the session; the log is what it returns
add_listener(st, o, s) == [st EXCEPT !.heap[o].listeners = @ \cup {s}]

\* fan-out of one event to a snapshot of the subscriber set
RECURSIVE broadcast(_, _, _, _)
broadcast(st, L, channelid, event) ==
  IF L = {} THEN st
  ELSE LET t == CHOOSE x \in L : TRUE
       IN broadcast(_send(st, t, channelid, event), L \ {t}, channelid, event)

\* Mailbox append: one Message at the end of the log, then the fan-out
add_message(st, o, sd, phase, body, server_rx, msgid) ==
  LET event == [side |-> sd, phase |-> phase, body |-> body,
                server_rx |-> server_rx, id |-> msgid]
      st1 == [st EXCEPT !.heap[o].messages = Append(@, event)]
  IN broadcast(st1, st.heap[o].listeners, st.heap[o].channelid, event)

\* close signal to every subscriber
RECURSIVE stop_all(_, _)
stop_all(st, L) ==
  IF L = {} THEN st
  ELSE LET t == CHOOSE x \in L : TRUE IN stop_all(_stop(st, t), L \ {t})

\* Mailbox release: removes one entry of the side; an empty multiset deletes
\* the Mailbox (log discarded, subscribers told to close). Deleted(st, o)
\* is the value returned.
release(st, o, sd, mood) ==
  LET st1 == [st EXCEPT !.heap[o].claims = @ (-) SetToBag({sd})]
      m == st1.heap[o]
  IN IF m.claims # EmptyBag THEN st1
     ELSE stop_all([st1 EXCEPT !.heap[o].messages = <<>>,
                               !.mailboxes[m.appid] = Without(@, m.channelid)],
                   m.listeners)

\* o is the Mailbox the Directory mb holds under its channel id
Registered(mb, o) ==
  o[2] \in DOMAIN mb[o[1]] /\ mb[o[1]][o[2]] = o

\* the objects something still refers to: the Directory or a session's
\* claimed-channel map; the others are garbage
Referenced(st) ==
  {st.mailboxes[a][c] : <<a, c>> \in
      {ac \in Apps \X ChannelIds : ac[2] \in DOMAIN st.mailboxes[ac[1]]}}
  \cup {st.channels[s][c] : <<s, c>> \in
      {sc \in Sessions \X ChannelIds : sc[2] \in DOMAIN st.channels[sc[1]]}}
collect(st) ==
  [st EXCEPT !.heap = [o \in DOMAIN st.heap \cap Referenced(st) |-> st.heap[o]]]

\* ---------------------------------------------------------------- handlers
handle_ping(st, s, msg) ==
  IF ~Has(msg, "ping") THEN raise(st, Error("ping requires 'ping'"))
  ELSE send(st, s, [type |-> "pong", pong |-> msg.ping])

\* (mutant) a bound session may bind again
handle_bind_again(st, s, msg) ==
  IF ~Has(msg, "appid") THEN raise(st, Error("bind requires 'appid'"))
  ELSE IF ~Has(msg, "side") THEN raise(st, Error("bind requires 'side'"))
  ELSE [st EXCEPT !.app[s] = msg.appid, !.side[s] = msg.side]

handle_bind(st, s, msg) ==
  IF st.app[s] # None \/ st.side[s] \notin {None, ""}
    THEN raise(st, Error("already bound"))
  ELSE IF ~Has(msg, "appid") THEN raise(st, Error("bind requires 'appid'"))
  ELSE IF ~Has(msg, "side") THEN raise(st, Error("bind requires 'side'"))
  ELSE [st EXCEPT !.app[s] = msg.appid, !.side[s] = msg.side]

\* (mutant) the channel ids in descending order
RECURSIVE reversed(_)
reversed(q) == IF q = <<>> THEN <<>> ELSE Append(reversed(Tail(q)), Head(q))

handle_list_unsorted(st, s) ==
  LET channelids == reversed(sorted(get_claimed(st, st.app[s])))
  IN send(st, s, [type |-> "channelids", channelids |-> channelids])

handle_list(st, s) ==
  LET channelids == sorted(get_claimed(st, st.app[s]))
  IN send(st, s, [type |-> "channelids", channelids |-> channelids])

\* (mutant) a second allocate is refused only while the session holds a
\* channel
handle_allocate_again(st, s) ==
  IF st.did_allocate[s] /\ st.channels[s] # EmptyMap
    THEN raise(st, Error("You already allocated one channel, don't be greedy"))
  ELSE LET channelid == find_available_channelid(st, st.app[s])
           st1 == [st EXCEPT !.did_allocate[s] = TRUE]
           st2 == claim_channel(st1, st.app[s], channelid, st.side[s])
           channel == st2.mailboxes[st.app[s]][channelid]
           st3 == [st2 EXCEPT !.channels[s] = (channelid :> channel) @@ @]
       IN send(st3, s, [type |-> "allocated", channelid |-> channelid])

\* (mutant) the allocated channel is not recorded as claimed by the session
handle_allocate_unrecorded(st, s) ==
  IF st.did_allocate[s]
    THEN raise(st, Error("You already allocated one channel, don't be greedy"))
  ELSE LET channelid == find_available_channelid(st, st.app[s])
           st1 == [st EXCEPT !.did_allocate[s] = TRUE]
           st2 == claim_channel(st1, st.app[s], channelid, st.side[s])
       IN send(st2, s, [type |-> "allocated", channelid |-> channelid])

handle_allocate(st, s) ==
  IF st.did_allocate[s]
    THEN raise(st, Error("You already allocated one channel, don't be greedy"))
  ELSE LET channelid == find_available_channelid(st, st.app[s])
           st1 == [st EXCEPT !.did_allocate[s] = TRUE]
           st2 == claim_channel(st1, st.app[s], channelid, st.side[s])
           channel == st2.mailboxes[st.app[s]][channelid]
           st3 == [st2 EXCEPT !.channels[s] = (channelid :> channel) @@ @]
       IN send(st3, s, [type |-> "allocated", channelid |-> channelid])

\* (mutant) every claim reaches the Directory
handle_claim_always(st, s, msg) ==
  IF ~Has(msg, "channelid") THEN raise(st, Error("claim requires 'channelid'"))
  ELSE LET channelid == msg.channelid
           st1 == claim_channel(st, st.app[s], channelid, st.side[s])
           channel == st1.mailboxes[st.app[s]][channelid]
       IN [st1 EXCEPT !.channels[s] = (channelid :> channel) @@ @]

handle_claim(st, s, msg) ==
  IF ~Has(msg, "channelid") THEN raise(st, Error("claim requires 'channelid'"))
  ELSE LET channelid == msg.channelid IN
    IF channelid \notin DOMAIN st.channels[s]
      THEN LET st1 == claim_channel(st, st.app[s], channelid, st.side[s])
               channel == st1.mailboxes[st.app[s]][channelid]
           IN [st1 EXCEPT !.channels[s] = (channelid :> channel) @@ @]
    ELSE st

\* (mutant) the loop run from the newest message to the oldest
RECURSIVE replay_newest_first(_, _, _, _)
replay_newest_first(st, s, channelid, old) ==
  IF old = <<>> THEN st
  ELSE replay_newest_first(_send(st, s, channelid, old[Len(old)]), s,
                           channelid, SubSeq(old, 1, Len(old) - 1))

\* the loop of handle_watch over the log add_listener returns
RECURSIVE replay(_, _, _, _)
replay(st, s, channelid, old) ==
  IF old = <<>> THEN st
  ELSE replay(_send(st, s, channelid, Head(old)), s, channelid, Tail(old))

\* (mutant) the listener is registered and the log it returns is dropped
handle_watch_unreplayed(st, s, msg) ==
  IF ~Has(msg, "channelid") THEN raise(st, KeyError("channelid"))
  ELSE LET channelid == msg.channelid IN
    IF channelid \notin DOMAIN st.channels[s]
      THEN raise(st, Error("must claim channel before watching"))
    ELSE add_listener(st, st.channels[s][channelid], s)

handle_watch(st, s, msg) ==
  IF ~Has(msg, "channelid") THEN raise(st, KeyError("channelid"))
  ELSE LET channelid == msg.channelid IN
    IF channelid \notin DOMAIN st.channels[s]
      THEN raise(st, Error("must claim channel before watching"))
    ELSE LET channel == st.channels[s][channelid]
         IN replay(add_listener(st, channel, s), s, channelid,
                   st.heap[channel].messages)

\* (mutant) a channel id the session does not hold is looked up in the
\* Directory and added to there
handle_add_any(st, s, msg, server_rx) ==
  IF ~Has(msg, "channelid") THEN raise(st, KeyError("channelid"))
  ELSE LET channelid == msg.channelid IN
    IF channelid \notin DOMAIN st.channels[s]
       /\ channelid \notin DOMAIN st.mailboxes[st.app[s]]
      THEN raise(st, Error("must claim channel before adding"))
    ELSE IF ~Has(msg, "phase") THEN raise(st, Error("missing 'phase'"))
    ELSE IF ~Has(msg, "body") THEN raise(st, Error("missing 'body'"))
    ELSE LET channel == IF channelid \in DOMAIN st.channels[s]
                          THEN st.channels[s][channelid]
                        ELSE st.mailboxes[st.app[s]][channelid]
             msgid == Get(msg, "id")
         IN add_message(st, channel, st.side[s], msg.phase, msg.body,
                        server_rx, msgid)

\* (mutant) the message is appended before 'body' is looked for
handle_add_unchecked(st, s, msg, server_rx) ==
  IF ~Has(msg, "channelid") THEN raise(st, KeyError("channelid"))
  ELSE LET channelid == msg.channelid IN
    IF channelid \notin DOMAIN st.channels[s]
      THEN raise(st, Error("must claim channel before adding"))
    ELSE IF ~Has(msg, "phase") THEN raise(st, Error("missing 'phase'"))
    ELSE LET channel == st.channels[s][channelid]
             msgid == Get(msg, "id")
             st1 == add_message(st, channel, st.side[s], msg.phase,
                                Get(msg, "body"), server_rx, msgid)
         IN IF ~Has(msg, "body") THEN raise(st1, Error("missing 'body'"))
            ELSE st1

handle_add(st, s, msg, server_rx) ==
  IF ~Has(msg, "channelid") THEN raise(st, KeyError("channelid"))
  ELSE LET channelid == msg.channelid IN
    IF channelid \notin DOMAIN st.channels[s]
      THEN raise(st, Error("must claim channel before adding"))
    ELSE IF ~Has(msg, "phase") THEN raise(st, Error("missing 'phase'"))
    ELSE IF ~Has(msg, "body") THEN raise(st, Error("missing 'body'"))
    ELSE LET channel == st.channels[s][channelid]
             msgid == Get(msg, "id")
         IN add_message(st, channel, st.side[s], msg.phase, msg.body,
                        server_rx, msgid)

\* (mutant) the two answers exchanged
released_status_exchanged(deleted) == IF deleted THEN "waiting" ELSE "deleted"

\* "deleted" if deleted else "waiting"
released_status(deleted) == IF deleted THEN "deleted" ELSE "waiting"

\* (mutant) the released response is lost when the Mailbox was deleted
handle_release_silent(st, s, msg) ==
  IF ~Has(msg, "channelid") THEN raise(st, KeyError("channelid"))
  ELSE LET channelid == msg.channelid IN
    IF channelid \notin DOMAIN st.channels[s]
      THEN raise(st, Error("must claim channel before releasing"))
    ELSE LET channel == st.channels[s][channelid]
             st1 == release(st, channel, st.side[s], Get(msg, "mood"))
             deleted == st1.heap[channel].claims = EmptyBag
             st2 == [st1 EXCEPT !.channels[s] = Without(@, channelid)]
         IN IF deleted /\ s \in st.heap[channel].listeners THEN st2
            ELSE send(st2, s, [type |-> "released",
                               status |-> released_status(deleted)])

\* (mutant) the channel is dropped from self._channels and not released
handle_release_local(st, s, msg) ==
  IF ~Has(msg, "channelid") THEN raise(st, KeyError("channelid"))
  ELSE LET channelid == msg.channelid IN
    IF channelid \notin DOMAIN st.channels[s]
      THEN raise(st, Error("must claim channel before releasing"))
    ELSE LET st2 == [st EXCEPT !.channels[s] = Without(@, channelid)]
         IN send(st2, s, [type |-> "released",
                          status |-> released_status(FALSE)])

\* (mutant) the session keeps the released channel in self._channels
handle_release_kept(st, s, msg) ==
  IF ~Has(msg, "channelid") THEN raise(st, KeyError("channelid"))
  ELSE LET channelid == msg.channelid IN
    IF channelid \notin DOMAIN st.channels[s]
      THEN raise(st, Error("must claim channel before releasing"))
    ELSE LET channel == st.channels[s][channelid]
             st1 == release(st, channel, st.side[s], Get(msg, "mood"))
             deleted == st1.heap[channel].claims = EmptyBag
         IN send(st1, s, [type |-> "released",
                          status |-> released_status(deleted)])

\* (mutant) a channel id the session does not hold is looked up in the
\* Directory and released there
handle_release_any(st, s, msg) ==
  IF ~Has(msg, "channelid") THEN raise(st, KeyError("channelid"))
  ELSE LET channelid == msg.channelid IN
    IF channelid \notin DOMAIN st.channels[s]
       /\ channelid \notin DOMAIN st.mailboxes[st.app[s]]
      THEN raise(st, Error("must claim channel before releasing"))
    ELSE LET channel == IF channelid \in DOMAIN st.channels[s]
                          THEN st.channels[s][channelid]
                        ELSE st.mailboxes[st.app[s]][channelid]
             st1 == release(st, channel, st.side[s], Get(msg, "mood"))
             deleted == st1.heap[channel].claims = EmptyBag
             st2 == [st1 EXCEPT !.channels[s] = Without(@, channelid)]
         IN send(st2, s, [type |-> "released",
                          status |-> released_status(deleted)])

handle_release(st, s, msg) ==
  IF ~Has(msg, "channelid") THEN raise(st, KeyError("channelid"))
  ELSE LET channelid == msg.channelid IN
    IF channelid \notin DOMAIN st.channels[s]
      THEN raise(st, Error("must claim channel before releasing"))
    ELSE LET channel == st.channels[s][channelid]
             st1 == release(st, channel, st.side[s], Get(msg, "mood"))
             deleted == st1.heap[channel].claims = EmptyBag
             st2 == [st1 EXCEPT !.channels[s] = Without(@, channelid)]
         IN send(st2, s, [type |-> "released",
                          status |-> released_status(deleted)])

\* (mutant) no ack for a message whose handler is going to raise
ack_if_accepted(st, s, msg) ==
  IF Has(msg, "id") /\ msg.type \in {"list", "allocate", "claim", "watch",
                                      "add", "release", "bind", "ping"}
                   /\ st.app[s] # None
    THEN send(st, s, [type |-> "ack", id |-> msg.id]) ELSE st

\* the ack of onMessage
ack(st, s, msg) ==
  IF Has(msg, "id") THEN send(st, s, [type |-> "ack", id |-> msg.id]) ELSE st

\* (mutant) the bind check made before ping and bind are dispatched
dispatch_gate_first(st, s, msg, server_rx) ==
  IF ~Has(msg, "type") THEN raise(st, Error("missing 'type'"))
  ELSE LET st1 == ack(st, s, msg)
           mtype == msg.type
       IN IF st1.app[s] = None /\ mtype # "bind"
            THEN raise(st1, Error("Must bind first"))
          ELSE IF mtype = "ping" THEN handle_ping(st1, s, msg)
          ELSE IF mtype = "bind" THEN handle_bind(st1, s, msg)
          ELSE IF mtype = "list" THEN handle_list(st1, s)
          ELSE IF mtype = "allocate" THEN handle_allocate(st1, s)
          ELSE IF mtype = "claim" THEN handle_claim(st1, s, msg)
          ELSE IF mtype = "watch" THEN handle_watch(st1, s, msg)
          ELSE IF mtype = "add" THEN handle_add(st1, s, msg, server_rx)
          ELSE IF mtype = "release" THEN handle_release(st1, s, msg)
          ELSE raise(st1, Error("Unknown type"))

\* the try block of onMessage
dispatch(st, s, msg, server_rx) ==
  IF ~Has(msg, "type") THEN raise(st, Error("missing 'type'"))
  ELSE LET st1 == ack(st, s, msg)
           mtype == msg.type
       IN IF mtype = "ping" THEN handle_ping(st1, s, msg)
          ELSE IF mtype = "bind" THEN handle_bind(st1, s, msg)
          ELSE IF st1.app[s] = None THEN raise(st1, Error("Must bind first"))
          ELSE IF mtype = "list" THEN handle_list(st1, s)
          ELSE IF mtype = "allocate" THEN handle_allocate(st1, s)
          ELSE IF mtype = "claim" THEN handle_claim(st1, s, msg)
          ELSE IF mtype = "watch" THEN handle_watch(st1, s, msg)
          ELSE IF mtype = "add" THEN handle_add(st1, s, msg, server_rx)
          ELSE IF mtype = "release" THEN handle_release(st1, s, msg)
          ELSE raise(st1, Error("Unknown type"))

\* onMessage: an Error raised in the try block becomes an error response;
\* any other exception leaves onMessage
onMessage(st, s, msg, server_rx) ==
  LET st1 == dispatch(st, s, msg, server_rx)
  IN IF st1.exc.kind = "Error"
       THEN send([st1 EXCEPT !.exc = NoExc], s,
                 [type |-> "error", error |-> st1.exc.explain, orig |-> msg])
     ELSE st1

\* ----------------------------------------------------------------- actions
\* out and last record what the event handled last wrote, for whoever looks
\* at the wire; no handler reads them. Every handler runs to completion in
\* one reactor turn, and the next event is taken once the reactor is back in
\* its loop.
Idle == [kind |-> "idle"]
NoOutput == [t \in Sessions |-> <<>>]
NothingYet == [replayed |-> <<>>, forwarded |-> <<>>]
Before ==
  [conn |-> conn, app |-> app, side |-> side, did_allocate |-> did_allocate,
   channels |-> channels, mailboxes |-> mailboxes, heap |-> heap,
   delayed |-> delayed, now |-> now, recv |-> recv]

Init ==
  /\ conn = [s \in Sessions |-> "connecting"]
  /\ app = [s \in Sessions |-> None]
  /\ side = [s \in Sessions |-> None]
  /\ did_allocate = [s \in Sessions |-> FALSE]
  /\ channels = [s \in Sessions |-> EmptyMap]
  /\ mailboxes = [a \in Apps |-> EmptyMap]
  /\ heap = EmptyMap
  /\ delayed = {}
  /\ now = 0
  /\ out = [s \in Sessions |-> <<>>]
  /\ recv = [s \in Sessions |-> [c \in ChannelIds |-> NothingYet]]
  /\ freed = {}
  /\ outstanding = [a \in Apps |-> [c \in ChannelIds |-> 0]]
  /\ last = Idle

\* the responses the handler wrote to session t, in order
Written(st, t) ==
  LET q == SelectSeq(st.sent, LAMBDA e : e.to = t)
  IN [i \in 1..Len(q) |-> q[i].resp]

\* self.sendMessage(payload, False) at the end of send: every frame is
\* handed to the transport of session t, whatever the state of its
\* connection
sendMessage(t, payloads) == payloads

\* the events of the "message" responses of q that name channel id c
Events(q, c) ==
  LET m == SelectSeq(q, LAMBDA r : r.type = "message" /\ r.channelid = c)
  IN [i \in 1..Len(m) |-> m[i].message]

\* onOpen: the welcome
onOpen(s) ==
  /\ last = Idle
  /\ conn[s] = "connecting"
  /\ conn' = [conn EXCEPT ![s] = "open"]
  /\ out' = [t \in Sessions |->
               IF t = s THEN <<[type |-> "welcome", welcome |-> "welcome"]>>
               ELSE <<>>]
  /\ last' = [kind |-> "onOpen", s |-> s, before |-> Before]
  /\ UNCHANGED <<app, side, did_allocate, channels, mailboxes, heap, delayed,
                 now, recv, freed, outstanding>>

\* One inbound frame handled by onMessage of session s. An exception other
\* than Error leaves onMessage; what the websocket library then does with
\* the connection depends on its version: it stays open or it is dropped.
Receive(s, msg) ==
  /\ last = Idle
  /\ conn[s] = "open"
  /\ LET server_rx == now
         done == onMessage(Current, s, msg, server_rx)
         st == collect(done)
         appended == \E o \in DOMAIN heap \cap DOMAIN done.heap :
                        Len(done.heap[o].messages) > Len(heap[o].messages)
         tried == dispatch(Current, s, msg, server_rx)
         answered(t) == Has(msg, "type") /\ msg.type = t /\ tried.exc = NoExc
         watched == answered("watch")
         \* the subscriptions that ended: the Mailbox was deleted
         ended(t, c) == \E o \in DOMAIN heap :
                          /\ heap[o].channelid = c /\ t \in heap[o].listeners
                          /\ Registered(mailboxes, o)
                          /\ ~Registered(done.mailboxes, o)
         \* the Mailboxes this step deleted
         deleted == {o \in DOMAIN heap : /\ Registered(mailboxes, o)
                                         /\ ~Registered(done.mailboxes, o)}
         wire(t) == sendMessage(t, Written(st, t))
         \* the claim entries the peers may count on
         change(a, c) ==
           IF a # app[s] THEN 0
           ELSE IF answered("claim") /\ msg.channelid = c
                   /\ c \notin DOMAIN channels[s] THEN 1
           ELSE IF answered("allocate")
                   /\ \E i \in 1..Len(wire(s)) :
                         wire(s)[i] = [type |-> "allocated", channelid |-> c]
                  THEN 1
           ELSE IF answered("release") /\ msg.channelid = c THEN -1
           ELSE 0
     IN /\ \A a \in Apps : DOMAIN st.mailboxes[a] \subseteq ChannelIds
        /\ appended => now < MaxTime
        /\ app' = st.app
        /\ side' = st.side
        /\ did_allocate' = st.did_allocate
        /\ channels' = st.channels
        /\ mailboxes' = st.mailboxes
        /\ heap' = st.heap
        /\ delayed' = st.delayed
        /\ now' = IF appended THEN now + 1 ELSE now
        /\ out' = [t \in Sessions |-> wire(t)]
        /\ recv' = [t \in Sessions |-> [c \in ChannelIds |->
                      IF ended(t, c) THEN NothingYet
                      ELSE IF watched /\ t = s /\ c = msg.channelid
                        THEN [replayed |-> Events(wire(t), c),
                              forwarded |-> <<>>]
                      ELSE [recv[t][c] EXCEPT
                              !.forwarded = @ \o Events(wire(t), c)]]]
        /\ freed' = freed \cup {heap[o].messages[i].server_rx :
                                   <<o, i>> \in {oi \in deleted \X (1..MaxTime) :
                                      oi[2] <= Len(heap[oi[1]].messages)}}
        /\ outstanding' = [a \in Apps |-> [c \in ChannelIds |->
                             outstanding[a][c] + change(a, c)]]
        /\ IF st.exc = NoExc THEN conn' = conn
           ELSE conn' \in {conn, [conn EXCEPT ![s] = "closed"]}
        /\ last' = [kind |-> "onMessage", s |-> s, msg |-> msg,
                    before |-> Before]

\* a delayed loseConnection runs in a later reactor turn; onClose does
\* nothing
loseConnection(s) ==
  /\ last = Idle
  /\ s \in delayed
  /\ delayed' = delayed \ {s}
  /\ conn' = [conn EXCEPT ![s] = "closed"]
  /\ out' = NoOutput
  /\ last' = [kind |-> "loseConnection", s |-> s, before |-> Before]
  /\ UNCHANGED <<app, side, did_allocate, channels, mailboxes, heap, now, recv,
                 freed, outstanding>>

\* (mutant) onClose releases every channel the session holds
RECURSIVE release_all(_, _, _)
release_all(st, s, C) ==
  IF C = {} THEN st
  ELSE LET c == CHOOSE x \in C : TRUE
           st1 == release(st, st.channels[s][c], st.side[s], None)
       IN release_all([st1 EXCEPT !.channels[s] = Without(@, c)], s, C \ {c})

onClose_releases(s) ==
  /\ last = Idle
  /\ conn[s] = "open"
  /\ LET st == collect(release_all(Current, s, DOMAIN channels[s]))
     IN /\ channels' = st.channels
        /\ mailboxes' = st.mailboxes
        /\ heap' = st.heap
        /\ delayed' = st.delayed
  /\ conn' = [conn EXCEPT ![s] = "closed"]
  /\ out' = NoOutput
  /\ last' = [kind |-> "onClose", s |-> s, before |-> Before]
  /\ UNCHANGED <<app, side, did_allocate, now, recv, freed, outstanding>>

\* the peer disconnects: onClose does nothing
onClose(s) ==
  /\ last = Idle
  /\ conn[s] = "open"
  /\ conn' = [conn EXCEPT ![s] = "closed"]
  /\ out' = NoOutput
  /\ last' = [kind |-> "onClose", s |-> s, before |-> Before]
  /\ UNCHANGED <<app, side, did_allocate, channels, mailboxes, heap, delayed,
                 now, recv, freed, outstanding>>

\* the handler has returned: the reactor is back in its loop
Return ==
  /\ last # Idle
  /\ last' = Idle
  /\ out' = NoOutput
  /\ UNCHANGED <<conn, app, side, did_allocate, channels, mailboxes, heap,
                 delayed, now, recv, freed, outstanding>>

\* ---------------------------------------------------- next-state relations
\* Each action takes the connections S the peers may use and the frames M
\* they may send.
OfType(M, t) == {m \in M : Has(m, "type") /\ m.type = t}
KnownTypes == {"ping", "bind", "list", "allocate", "claim", "watch", "add",
               "release"}

Open(S) == \E s \in S : onOpen(s)
MissingType(S, M) ==
  \E s \in S, msg \in {m \in M : ~Has(m, "type")} : Receive(s, msg)
UnknownType(S, M) ==
  \E s \in S, msg \in {m \in M : Has(m, "type") /\ m.type \notin KnownTypes} :
     Receive(s, msg)
Ping(S, M) == \E s \in S, msg \in OfType(M, "ping") : Receive(s, msg)
Bind(S, M) == \E s \in S, msg \in OfType(M, "bind") : Receive(s, msg)
List(S, M) == \E s \in S, msg \in OfType(M, "list") : Receive(s, msg)
Allocate(S, M) == \E s \in S, msg \in OfType(M, "allocate") : Receive(s, msg)
Claim(S, M) == \E s \in S, msg \in OfType(M, "claim") : Receive(s, msg)
Watch(S, M) == \E s \in S, msg \in OfType(M, "watch") : Receive(s, msg)
Add(S, M) == \E s \in S, msg \in OfType(M, "add") : Receive(s, msg)
Release(S, M) == \E s \in S, msg \in OfType(M, "release") : Receive(s, msg)
LoseConnection(S) == \E s \in S : loseConnection(s)
Close(S) == \E s \in S : onClose(s)

\* every connection, every frame
Next ==
  \/ Open(Sessions)
  \/ MissingType(Sessions, Messages)
  \/ UnknownType(Sessions, Messages)
  \/ Ping(Sessions, Messages)
  \/ Bind(Sessions, Messages)
  \/ List(Sessions, Messages)
  \/ Allocate(Sessions, Messages)
  \/ Claim(Sessions, Messages)
  \/ Watch(Sessions, Messages)
  \/ Add(Sessions, Messages)
  \/ Release(Sessions, Messages)
  \/ LoseConnection(Sessions)
  \/ Close(Sessions)
  \/ Return

Spec == Init /\ [][Next]_vars

\* One connection sending every frame.
OneSession == {"s1"}

NextSession ==
  \/ Open(OneSession)
  \/ MissingType(OneSession, Messages)
  \/ UnknownType(OneSession, Messages)
  \/ Ping(OneSession, Messages)
  \/ Bind(OneSession, Messages)
  \/ List(OneSession, Messages)
  \/ Allocate(OneSession, Messages)
  \/ Claim(OneSession, Messages)
  \/ Watch(OneSession, Messages)
  \/ Add(OneSession, Messages)
  \/ Release(OneSession, Messages)
  \/ LoseConnection(OneSession)
  \/ Close(OneSession)
  \/ Return

SpecSession == Init /\ [][NextSession]_vars

\* Every connection on the Directory: all frames but the watch and add of a
\* channel id; a watch or add that names no channel id is dispatched like
\* any other frame.
DirectoryMessages ==
  {m \in Messages :
     ~(Has(m, "type") /\ m.type \in {"watch", "add"} /\ Has(m, "channelid"))}

NextDirectory ==
  \/ Open(Sessions)
  \/ MissingType(Sessions, DirectoryMessages)
  \/ UnknownType(Sessions, DirectoryMessages)
  \/ Ping(Sessions, DirectoryMessages)
  \/ Bind(Sessions, DirectoryMessages)
  \/ List(Sessions, DirectoryMessages)
  \/ Allocate(Sessions, DirectoryMessages)
  \/ Claim(Sessions, DirectoryMessages)
  \/ Watch(Sessions, DirectoryMessages)
  \/ Add(Sessions, DirectoryMessages)
  \/ Release(Sessions, DirectoryMessages)
  \/ Close(Sessions)
  \/ Return

SpecDirectory == Init /\ [][NextDirectory]_vars

\* Every connection on one Mailbox: the frames that bind, claim, watch, add
\* to and release channel id "1".
MailboxMessages ==
  {m \in Messages :
     /\ Has(m, "type") /\ m.type \in {"bind", "claim", "watch", "add", "release"}
     /\ Has(m, "channelid") => m.channelid = "1"
     /\ Has(m, "appid") => m.appid = "x"
     /\ Has(m, "id") => m.type = "add"}

NextMailbox ==
  \/ Open(Sessions)
  \/ Bind(Sessions, MailboxMessages)
  \/ Claim(Sessions, MailboxMessages)
  \/ Watch(Sessions, MailboxMessages)
  \/ Add(Sessions, MailboxMessages)
  \/ Release(Sessions, MailboxMessages)
  \/ LoseConnection(Sessions)
  \/ Close(Sessions)
  \/ Return

SpecMailbox == Init /\ [][NextMailbox]_vars

\* Every connection on the subscribers of one Mailbox: the frames that
\* bind, claim, watch and release channel id "1", and pings.
WatchMessages ==
  {m \in Messages :
     /\ Has(m, "type") /\ m.type \in {"ping", "bind", "claim", "watch", "release"}
     /\ Has(m, "channelid") => m.channelid = "1"
     /\ Has(m, "appid") => m.appid = "x"
     /\ ~Has(m, "id")}

NextWatch ==
  \/ Open(Sessions)
  \/ Ping(Sessions, WatchMessages)
  \/ Bind(Sessions, WatchMessages)
  \/ Claim(Sessions, WatchMessages)
  \/ Watch(Sessions, WatchMessages)
  \/ Release(Sessions, WatchMessages)
  \/ LoseConnection(Sessions)
  \/ Close(Sessions)
  \/ Return

\* The reactor's scheduling: a handler returns, and a call scheduled with
\* callLater(0, ...) runs in a later turn of the reactor.
SpecWatch ==
  /\ Init /\ [][NextWatch]_vars
  /\ WF_vars(Return)
  /\ \A s \in Sessions : SF_vars(loseConnection(s))

\* ------------------------------------------------------------------ claims
\* What the claims below look at: the frame handled last, the state it
\* found and what was written for it.
Handled(t) ==
  last.kind = "onMessage" /\ Has(last.msg, "type") /\ last.msg.type = t
WasBound == last.before.app[last.s] # None
Acked(msg) ==
  IF Has(msg, "id") THEN <<[type |-> "ack", id |-> msg.id]>> ELSE <<>>
ErrorResponse(explain, msg) ==
  [type |-> "error", error |-> explain, orig |-> msg]
MessageResponse(c, e) == [type |-> "message", channelid |-> c, message |-> e]
Count(q, e) == Cardinality({i \in 1..Len(q) : q[i] = e})
Elements(q) == {q[i] : i \in 1..Len(q)}
\* t's connection is open and t is a subscriber of the registered Mailbox o
Subscribed(t, o) ==
  conn[t] = "open" /\ Registered(mailboxes, o) /\ t \in heap[o].listeners
Delivered(t, c) == recv[t][c].replayed \o recv[t][c].forwarded
\* the frame handled last was a watch of a channel id its session held
WatchedHeld ==
  /\ Handled("watch") /\ WasBound /\ Has(last.msg, "channelid")
  /\ last.msg.channelid \in DOMAIN last.before.channels[last.s]

\* C1 Replay-then-forward ordering: a watch of a claimed channel writes the
\* log as it stands, m1..mk in arrival order, and every message appended
\* afterwards is written after them in append order: what an open subscriber
\* has been written since its watch is the replay followed by the forwards,
\* and that is the log of the Mailbox, whoever else adds.
C1_ReplayThenForward ==
  /\ WatchedHeld =>
       LET c == last.msg.channelid
           o == last.before.channels[last.s][c]
       IN /\ recv[last.s][c].replayed = last.before.heap[o].messages
          /\ recv[last.s][c].forwarded = <<>>
  /\ \A t \in Sessions, o \in DOMAIN heap :
       Subscribed(t, o) => Delivered(t, o[2]) = heap[o].messages

\* an open subscriber whose watch replayed a message has just been forwarded
\* another one, added by a different session
C1_Witness ==
  /\ Handled("add")
  /\ \E t \in Sessions \ {last.s}, o \in DOMAIN heap :
       /\ Subscribed(t, o)
       /\ recv[t][o[2]].replayed # <<>>
       /\ recv[t][o[2]].forwarded # <<>>
       /\ Len(out[t]) = 1

\* C2 Watch is atomic with respect to appends: the watch registers the
\* session and replays the log in one step that appends nothing, so every
\* message of the log has been written to an open subscriber exactly once,
\* and nothing else has.
C2_WatchAtomic ==
  /\ WatchedHeld =>
       LET o == last.before.channels[last.s][last.msg.channelid]
       IN /\ last.s \in heap[o].listeners
          /\ heap[o].messages = last.before.heap[o].messages
  /\ \A t \in Sessions, o \in DOMAIN heap :
       Subscribed(t, o) =>
         /\ \A e \in Elements(heap[o].messages) : Count(Delivered(t, o[2]), e) = 1
         /\ Elements(Delivered(t, o[2])) \subseteq Elements(heap[o].messages)

\* a watch has just replayed a log of two messages to a session while
\* another session is subscribed to the same Mailbox
C2_Witness ==
  /\ WatchedHeld
  /\ Len(recv[last.s][last.msg.channelid].replayed) = 2
  /\ \E t \in Sessions \ {last.s} :
       Subscribed(t, last.before.channels[last.s][last.msg.channelid])

\* the frame handled last was a release of a channel id, by a bound session
ReleaseOf == Handled("release") /\ WasBound /\ Has(last.msg, "channelid")

\* C3 Lifecycle conservation: counting a claim or allocate when it adds an
\* entry to the claim multiset (a repeated claim by a session that holds the
\* id adds none), a Mailbox exists exactly while the releases answered are
\* fewer than those claims, the release that makes the two numbers equal
\* empties the multiset and answers status deleted, and every other release
\* that is answered says waiting.
C3_LifecycleConservation ==
  /\ \A a \in Apps, c \in ChannelIds :
       /\ c \in DOMAIN mailboxes[a] <=> outstanding[a][c] > 0
       /\ c \in DOMAIN mailboxes[a] =>
            BagCardinality(heap[mailboxes[a][c]].claims) = outstanding[a][c]
  /\ (ReleaseOf /\ last.msg.channelid \in DOMAIN last.before.channels[last.s]) =>
       LET c == last.msg.channelid
           a == app[last.s]
           o == last.before.channels[last.s][c]
           emptied == BagCardinality(last.before.heap[o].claims) = 1
           status == IF emptied THEN "deleted" ELSE "waiting"
       IN /\ out[last.s] = Acked(last.msg)
                           \o <<[type |-> "released", status |-> status]>>
          /\ emptied <=> outstanding[a][c] = 0
          /\ emptied <=> c \notin DOMAIN mailboxes[a]
          /\ emptied <=> o \notin DOMAIN heap

\* a release has just been answered with status deleted and the Mailbox is
\* gone, after another session of the same app and side allocated a channel
\* and released it
C3_Witness ==
  /\ ReleaseOf
  /\ out[last.s] = Acked(last.msg)
                   \o <<[type |-> "released", status |-> "deleted"]>>
  /\ last.msg.channelid \notin DOMAIN mailboxes[app[last.s]]
  /\ \E t \in Sessions \ {last.s} :
       /\ app[t] = app[last.s] /\ side[t] = side[last.s]
       /\ did_allocate[t] /\ channels[t] = EmptyMap

\* C4 A release of a channel id the session does not hold (never claimed,
\* or released already) is answered with the not-claimed error, removes no
\* claim entry and leaves every claim count as it was; the claims counted
\* never fall below the releases.
C4_ReleaseNotHeld ==
  /\ (ReleaseOf /\ last.msg.channelid \notin DOMAIN last.before.channels[last.s]) =>
       /\ out[last.s] = Acked(last.msg) \o
            <<ErrorResponse("must claim channel before releasing", last.msg)>>
       /\ channels = last.before.channels
       /\ mailboxes = last.before.mailboxes
       /\ heap = last.before.heap
  /\ \A a \in Apps, c \in ChannelIds : outstanding[a][c] >= 0

\* a session that released its claim releases again while another session
\* still holds the channel
C4_Witness ==
  /\ ReleaseOf
  /\ last.msg.channelid \notin DOMAIN last.before.channels[last.s]
  /\ did_allocate[last.s]
  /\ last.msg.channelid \in DOMAIN mailboxes[app[last.s]]
  /\ Len(out[last.s]) >= 1
  /\ out[last.s][Len(out[last.s])].type = "error"

\* the frame handled last was an add to a channel id, by a bound session
AddTo == Handled("add") /\ WasBound /\ Has(last.msg, "channelid")
\* what was written to session t apart from the ack
Answer(t) ==
  IF t = last.s /\ out[t] # <<>> /\ out[t][1].type = "ack" THEN Tail(out[t])
  ELSE out[t]

\* C5 An add that is accepted appends exactly one Message to the log of
\* the Mailbox and writes it exactly once to every subscriber of that
\* Mailbox, the sender included when it is subscribed, and to nobody
\* else; an add to a channel id the session does not hold is answered
\* with the not-claimed error and appends nothing.
C5_AddAppendsAndDelivers ==
  AddTo =>
    LET s == last.s
        msg == last.msg
        c == msg.channelid
        B == last.before
    IN IF c \notin DOMAIN B.channels[s]
         THEN /\ out[s] = Acked(msg) \o
                   <<ErrorResponse("must claim channel before adding", msg)>>
              /\ heap = B.heap
              /\ \A t \in Sessions \ {s} : out[t] = <<>>
       ELSE (Has(msg, "phase") /\ Has(msg, "body")) =>
              LET o == B.channels[s][c]
                  e == [side |-> side[s], phase |-> msg.phase,
                        body |-> msg.body, server_rx |-> B.now,
                        id |-> Get(msg, "id")]
              IN /\ DOMAIN heap = DOMAIN B.heap
                 /\ heap[o].messages = Append(B.heap[o].messages, e)
                 /\ \A p \in DOMAIN heap \ {o} : heap[p] = B.heap[p]
                 /\ \A t \in Sessions :
                      Answer(t) = IF t \in B.heap[o].listeners
                                    THEN <<MessageResponse(c, e)>>
                                  ELSE <<>>

\* an add has just been written to its own sender and to another session,
\* both subscribed
C5_Witness ==
  /\ AddTo
  /\ last.msg.channelid \in DOMAIN last.before.channels[last.s]
  /\ Len(Answer(last.s)) = 1 /\ Answer(last.s)[1].type = "message"
  /\ \E t \in Sessions \ {last.s} : Len(out[t]) = 1 /\ out[t] = Answer(last.s)

\* C6 as claimed: every inbound message that carries a correlation id,
\* whatever its other fields, is answered first with the ack of that id
C6_AckFirst_AsClaimed ==
  (last.kind = "onMessage" /\ Has(last.msg, "id")) =>
    /\ out[last.s] # <<>>
    /\ out[last.s][1] = [type |-> "ack", id |-> last.msg.id]

\* C6 Ack first: every inbound message that has a "type" and carries a
\* correlation id is answered with the ack of that id before any other
\* response to it, accepted or rejected, and with no second ack; a message
\* without "type" is rejected before the id is looked at and gets no ack.
C6_AckFirst ==
  (last.kind = "onMessage" /\ Has(last.msg, "id")) =>
    IF Has(last.msg, "type")
      THEN /\ out[last.s] # <<>>
           /\ out[last.s][1] = [type |-> "ack", id |-> last.msg.id]
           /\ \A i \in 2..Len(out[last.s]) : out[last.s][i].type # "ack"
    ELSE out[last.s] = <<ErrorResponse("missing 'type'", last.msg)>>

\* a message with an id has just been rejected: the ack, then the error
C6_Witness ==
  /\ last.kind = "onMessage" /\ Has(last.msg, "id") /\ Has(last.msg, "type")
  /\ Len(out[last.s]) = 2
  /\ out[last.s][1].type = "ack"
  /\ out[last.s][2].type = "error"

\* C7 Allocate-once: an allocate that is answered with a channel id sets
\* the session's flag, no event ever clears the flag, and an allocate on a
\* session whose flag is set is answered with the already-allocated error
\* and changes nothing, whatever was handled in between.
C7_AllocateOnce ==
  /\ last # Idle =>
       \A s \in Sessions : last.before.did_allocate[s] => did_allocate[s]
  /\ (Handled("allocate") /\ WasBound) =>
       IF last.before.did_allocate[last.s]
         THEN /\ out[last.s] = Acked(last.msg) \o <<ErrorResponse(
                   "You already allocated one channel, don't be greedy",
                   last.msg)>>
              /\ channels = last.before.channels
              /\ mailboxes = last.before.mailboxes
              /\ heap = last.before.heap
       ELSE /\ did_allocate[last.s]
            /\ Len(Answer(last.s)) = 1
            /\ Answer(last.s)[1].type = "allocated"

\* a second allocate has just been refused on a session that released the
\* channel it had allocated
C7_Witness ==
  /\ Handled("allocate") /\ WasBound
  /\ last.before.did_allocate[last.s]
  /\ channels[last.s] = EmptyMap
  /\ Len(Answer(last.s)) = 1 /\ Answer(last.s)[1].type = "error"

\* the frame handled last was a claim of a channel id, by a bound session
ClaimOf == Handled("claim") /\ WasBound /\ Has(last.msg, "channelid")

\* C8 Claim idempotence: a claim of a channel id the session already holds,
\* from an earlier claim or from allocate, is answered with no error (the
\* ack alone), adds no entry to any claim multiset and leaves the session's
\* claimed channels as they were.
C8_ClaimIdempotent ==
  (ClaimOf /\ last.msg.channelid \in DOMAIN last.before.channels[last.s]) =>
    /\ out[last.s] = Acked(last.msg)
    /\ channels = last.before.channels
    /\ mailboxes = last.before.mailboxes
    /\ heap = last.before.heap
    /\ outstanding[app[last.s]][last.msg.channelid]
         = Cardinality({t \in Sessions :
              app[t] = app[last.s] /\ last.msg.channelid \in DOMAIN channels[t]})

\* a session has just claimed again the one channel it holds, which it got
\* from allocate and which another session has claimed too
C8_Witness ==
  /\ ClaimOf
  /\ last.before.did_allocate[last.s]
  /\ DOMAIN last.before.channels[last.s] = {last.msg.channelid}
  /\ outstanding[app[last.s]][last.msg.channelid] = 2
  /\ \A c \in ChannelIds \ {last.msg.channelid} :
        outstanding[app[last.s]][c] = 0

\* the allocate handled last was answered with a channel id
Allocated ==
  /\ Handled("allocate") /\ WasBound
  /\ Len(Answer(last.s)) = 1 /\ Answer(last.s)[1].type = "allocated"

\* C9 Allocate answers with the smallest positive integer, as a string,
\* that was not a key of the app's mailbox map, and in the same step that
\* Mailbox exists, new and empty, with one claim entry, of the session's
\* side, and is recorded in the session's claimed channels: the id answered
\* never names a Mailbox that existed, so it differs from every id
\* allocated earlier and not deleted since.
C9_AllocateSmallestFree ==
  /\ (Handled("allocate") /\ WasBound /\ ~last.before.did_allocate[last.s])
       => Allocated
  /\ Allocated =>
       LET s == last.s
           a == app[s]
           B == last.before
           c == Answer(s)[1].channelid
       IN /\ \E n \in 1..(MaxChannel + 1) :
                /\ c = Str(n)
                /\ \A m \in 1..(n - 1) : Str(m) \in DOMAIN B.mailboxes[a]
          /\ c \notin DOMAIN B.mailboxes[a]
          /\ DOMAIN mailboxes[a] = DOMAIN B.mailboxes[a] \cup {c}
          /\ \A d \in DOMAIN B.mailboxes[a] : mailboxes[a][d] = B.mailboxes[a][d]
          /\ mailboxes[a][c] \notin DOMAIN B.heap
          /\ heap[mailboxes[a][c]] =
               [appid |-> a, channelid |-> c, claims |-> SetToBag({side[s]}),
                messages |-> <<>>, listeners |-> {}]
          /\ channels[s] = (c :> mailboxes[a][c]) @@ B.channels[s]
          /\ \A t \in Sessions \ {s} : channels[t] = B.channels[t]

\* an allocate has just been answered "2" because another session holds
\* "1" in the same app
C9_Witness ==
  /\ Allocated
  /\ Answer(last.s)[1].channelid = "2"
  /\ \E t \in Sessions \ {last.s} :
       app[t] = app[last.s] /\ "1" \in DOMAIN channels[t]

\* C10 List correctness: a list by a bound session is answered with the
\* channel ids of its app whose claim multiset holds exactly one distinct
\* side, each once, in ascending order; a channel id claimed by two
\* distinct sides, one that was deleted and one of another app are absent.
C10_ListCorrect ==
  (Handled("list") /\ WasBound) =>
    /\ Len(Answer(last.s)) = 1
    /\ Answer(last.s)[1].type = "channelids"
    /\ LET q == Answer(last.s)[1].channelids
           a == app[last.s]
       IN /\ \A i, j \in 1..Len(q) : i < j => Rank(q[i]) < Rank(q[j])
          /\ Elements(q) =
               {c \in ChannelIds :
                  /\ c \in DOMAIN mailboxes[a]
                  /\ Cardinality({sd \in Sides :
                       BagIn(sd, heap[mailboxes[a][c]].claims)}) = 1}

\* a list has just been answered with "1" and "2" in that order
C10_Witness ==
  /\ Handled("list") /\ WasBound
  /\ Answer(last.s) = <<[type |-> "channelids", channelids |-> <<"1", "2">>]>>

\* a list has just been answered with "2" alone while "1" is claimed by
\* two distinct sides
C10_TwoSidesExcluded ==
  /\ Handled("list") /\ WasBound
  /\ Answer(last.s) = <<[type |-> "channelids", channelids |-> <<"2">>]>>
  /\ "1" \in DOMAIN mailboxes[app[last.s]]

\* the frame handled last was a claim, by a bound session, of a channel id
\* that named no Mailbox
FreshClaim ==
  /\ ClaimOf
  /\ last.msg.channelid \notin DOMAIN last.before.mailboxes[app[last.s]]

\* the server_rx stamps of the "message" responses in q
Stamps(q) ==
  {q[i].message.server_rx : i \in {j \in 1..Len(q) : q[j].type = "message"}}

\* C11 No resurrection: a claim of a channel id that names no Mailbox, one
\* deleted earlier included, creates a Mailbox with an empty log, no
\* subscriber and the new claim alone, and nobody is subscribed to it; no
\* message whose log was freed at a deletion is in the log of any Mailbox,
\* is replayed by a watch or is written to any session afterwards.
C11_NoResurrection ==
  /\ FreshClaim =>
       LET s == last.s
           a == app[s]
           c == last.msg.channelid
       IN /\ out[s] = Acked(last.msg)
          /\ c \in DOMAIN mailboxes[a]
          /\ heap[mailboxes[a][c]] =
               [appid |-> a, channelid |-> c, claims |-> SetToBag({side[s]}),
                messages |-> <<>>, listeners |-> {}]
          /\ channels[s] = (c :> mailboxes[a][c]) @@ last.before.channels[s]
          /\ \A t \in Sessions : app[t] = a => recv[t][c] = NothingYet
  /\ WatchedHeld =>
       LET c == last.msg.channelid
       IN /\ Registered(mailboxes, channels[last.s][c])
          /\ \A i \in 1..Len(recv[last.s][c].replayed) :
                recv[last.s][c].replayed[i].server_rx \notin freed
  /\ \A t \in Sessions : Stamps(out[t]) \cap freed = {}
  /\ \A o \in DOMAIN heap : \A i \in 1..Len(heap[o].messages) :
        heap[o].messages[i].server_rx \notin freed

\* a channel id whose Mailbox was deleted with a message in its log has
\* just been claimed again
C11_Witness ==
  /\ FreshClaim
  /\ freed # {}
  /\ last.before.did_allocate = [t \in Sessions |-> FALSE]

\* a watch of the new Mailbox has just replayed the one message added to it
\* and not the message of the deleted one
C11_WatchAfter ==
  /\ WatchedHeld
  /\ freed = {0}
  /\ Len(recv[last.s][last.msg.channelid].replayed) = 1

\* the commands that need a bound session
Gated == {"list", "allocate", "claim", "watch", "add", "release"}

\* the handler left the session, the Directory, every Mailbox, the pending
\* connection losses and every connection as it found them
NothingChanged ==
  /\ app = last.before.app
  /\ side = last.before.side
  /\ did_allocate = last.before.did_allocate
  /\ channels = last.before.channels
  /\ mailboxes = last.before.mailboxes
  /\ heap = last.before.heap
  /\ delayed = last.before.delayed
  /\ conn = last.before.conn

\* C12 Bind gate: while a session is Unbound, a list, allocate, claim,
\* watch, add or release, whatever its fields, is answered with the error
\* "Must bind first" echoing the message and changes nothing, and nothing
\* is written to another session; a ping carrying a value is answered with
\* a pong of that value and changes nothing, in every state, Unbound
\* included.
C12_BindGate ==
  /\ (last.kind = "onMessage" /\ Has(last.msg, "type")
        /\ last.msg.type \in Gated /\ ~WasBound) =>
       /\ out[last.s] = Acked(last.msg)
                        \o <<ErrorResponse("Must bind first", last.msg)>>
       /\ \A t \in Sessions \ {last.s} : out[t] = <<>>
       /\ NothingChanged
  /\ (Handled("ping") /\ Has(last.msg, "ping")) =>
       /\ out[last.s] = Acked(last.msg)
                        \o <<[type |-> "pong", pong |-> last.msg.ping]>>
       /\ \A t \in Sessions \ {last.s} : out[t] = <<>>
       /\ NothingChanged

\* an unbound session has just been refused an add to a channel id
C12_Witness ==
  /\ Handled("add") /\ ~WasBound
  /\ Has(last.msg, "channelid") /\ Has(last.msg, "id")
  /\ Len(out[last.s]) = 2 /\ out[last.s][2].type = "error"

\* an unbound session has just been answered a pong
C12_PingUnbound ==
  /\ Handled("ping") /\ ~WasBound
  /\ Len(out[last.s]) = 1 /\ out[last.s][1].type = "pong"

\* C13 Bind exactly once: the first bind that carries both appid and side
\* sets the session's app and side to them; a bind on a bound session,
\* whatever it carries, is answered with the error "already bound" and
\* changes nothing; a bind on an unbound session that lacks appid or side
\* is answered with the error naming the missing field and leaves the
\* session unbound. No step changes the app or side of a bound session.
C13_BindOnce ==
  /\ Handled("bind") =>
       LET s == last.s
           msg == last.msg
           refused(explain) ==
             /\ out[s] = Acked(msg) \o <<ErrorResponse(explain, msg)>>
             /\ NothingChanged
       IN /\ \A t \in Sessions \ {s} : out[t] = <<>>
          /\ IF WasBound THEN refused("already bound")
             ELSE IF ~Has(msg, "appid") THEN refused("bind requires 'appid'")
             ELSE IF ~Has(msg, "side") THEN refused("bind requires 'side'")
             ELSE /\ out[s] = Acked(msg)
                  /\ app = [last.before.app EXCEPT ![s] = msg.appid]
                  /\ side = [last.before.side EXCEPT ![s] = msg.side]
                  /\ did_allocate = last.before.did_allocate
                  /\ channels = last.before.channels
                  /\ mailboxes = last.before.mailboxes
                  /\ heap = last.before.heap
                  /\ conn = last.before.conn
  /\ last # Idle =>
       \A t \in Sessions :
          last.before.app[t] # None =>
             app[t] = last.before.app[t] /\ side[t] = last.before.side[t]
  /\ \A t \in Sessions : app[t] = None <=> side[t] = None

\* a session that holds a channel has just been refused a bind to another
\* app and side
C13_Witness ==
  /\ Handled("bind") /\ WasBound
  /\ Has(last.msg, "appid") /\ last.msg.appid # app[last.s]
  /\ Has(last.msg, "side") /\ last.msg.side # side[last.s]
  /\ channels[last.s] # EmptyMap
  /\ Len(out[last.s]) = 1 /\ out[last.s][1].type = "error"

\* an unbound session has just been refused a bind that lacks its side
C13_MissingSide ==
  /\ Handled("bind") /\ ~WasBound /\ ~Has(last.msg, "side")
  /\ app[last.s] = None
  /\ Len(out[last.s]) = 1 /\ out[last.s][1].type = "error"

\* the frame handled last was answered with an error response
AnsweredError ==
  /\ last.kind = "onMessage"
  /\ \E i \in 1..Len(out[last.s]) : out[last.s][i].type = "error"

\* C14 Errors are local and leave state unchanged: a frame answered with an
\* error response leaves the app, side, allocate flag and claimed channels
\* of every session and the Directory, every Mailbox's claims, log and
\* subscribers, the clock and every subscription's deliveries as they were,
\* closes no connection and schedules no close, and writes nothing to any
\* other session; the error is the one response after the ack.
C14_ErrorsLocal ==
  AnsweredError =>
    /\ NothingChanged
    /\ now = last.before.now
    /\ recv = last.before.recv
    /\ conn[last.s] = "open"
    /\ \A t \in Sessions \ {last.s} : out[t] = <<>>
    /\ Len(Answer(last.s)) = 1
    /\ Answer(last.s)[1].orig = last.msg

\* an add that lacks its body, to a Mailbox another session is subscribed
\* to, has just been answered with an error
C14_Witness ==
  /\ AnsweredError
  /\ AddTo /\ ~Has(last.msg, "body")
  /\ last.msg.channelid \in DOMAIN channels[last.s]
  /\ \E t \in Sessions \ {last.s} :
       Subscribed(t, channels[last.s][last.msg.channelid])

\* msg has no type, an unknown type, or lacks a field its command requires
Violation(msg) ==
  \/ ~Has(msg, "type")
  \/ /\ Has(msg, "type")
     /\ \/ msg.type \notin KnownTypes
        \/ msg.type = "bind" /\ (~Has(msg, "appid") \/ ~Has(msg, "side"))
        \/ msg.type = "ping" /\ ~Has(msg, "ping")
        \/ msg.type \in {"claim", "watch", "add", "release"}
             /\ ~Has(msg, "channelid")
        \/ msg.type = "add" /\ (~Has(msg, "phase") \/ ~Has(msg, "body"))

\* C15 Every violation becomes an error response: a frame with no type,
\* an unknown type or without a field its command requires is answered
\* with exactly one error response, whose orig is the frame, and the
\* connection stays open for later commands.
C15_EveryViolationAnswered ==
  (last.kind = "onMessage" /\ Violation(last.msg)) =>
    /\ Cardinality({i \in 1..Len(out[last.s]) :
                       out[last.s][i].type = "error"}) = 1
    /\ \A i \in 1..Len(out[last.s]) :
          out[last.s][i].type = "error" => out[last.s][i].orig = last.msg
    /\ conn[last.s] = "open"

\* C16 Closed is terminal: once a session's connection has closed, no
\* response is sent to that session any more, in particular no message is
\* forwarded to it when another session adds to a Mailbox it had been
\* watching.
C16_ClosedTerminal ==
  last # Idle =>
    \A t \in Sessions : last.before.conn[t] = "closed" => out[t] = <<>>

\* C17 Disconnecting does not release: a connection that closes, by the
\* peer or by a scheduled loseConnection, leaves the Directory, every
\* Mailbox's claims and every session's claimed channels as they were; the
\* Mailbox of a channel a closed session holds stays registered with that
\* session's claim in it, and no release by another session of a channel a
\* closed session of the same app holds is answered deleted.
C17_DisconnectKeepsClaims ==
  /\ (last # Idle /\ last.kind \in {"onClose", "loseConnection"}) =>
       /\ conn[last.s] = "closed"
       /\ mailboxes = last.before.mailboxes
       /\ heap = last.before.heap
       /\ channels = last.before.channels
  /\ \A t \in Sessions : \A c \in DOMAIN channels[t] :
       conn[t] = "closed" =>
         /\ Registered(mailboxes, channels[t][c])
         /\ BagIn(side[t], heap[channels[t][c]].claims)
  /\ ReleaseOf =>
       \A t \in Sessions \ {last.s} :
          (/\ last.before.conn[t] = "closed" /\ app[t] = app[last.s]
           /\ last.msg.channelid \in DOMAIN channels[t]) =>
            \A i \in 1..Len(out[last.s]) :
               out[last.s][i] # [type |-> "released", status |-> "deleted"]

\* the last open holder of a channel has just released it and was answered
\* waiting, because a session that disconnected still holds its claim
C17_Witness ==
  /\ ReleaseOf
  /\ Len(Answer(last.s)) = 1
  /\ Answer(last.s)[1] = [type |-> "released", status |-> "waiting"]
  /\ \A t \in Sessions \ {last.s} :
       /\ last.before.conn[t] = "closed"
       /\ app[t] = app[last.s]
       /\ last.msg.channelid \in DOMAIN channels[t]

\* the Mailboxes the last step deleted
Deleted ==
  IF last = Idle THEN {}
  ELSE {o \in DOMAIN last.before.heap :
          /\ Registered(last.before.mailboxes, o) /\ ~Registered(mailboxes, o)}

\* a Mailbox is deleted only by the release of its last claim entry, which
\* schedules a loseConnection for each of its subscribers
C18_OnlyReleaseDeletes ==
  \A o \in Deleted :
     /\ ReleaseOf
     /\ last.msg.channelid \in DOMAIN last.before.channels[last.s]
     /\ o = last.before.channels[last.s][last.msg.channelid]
     /\ last.before.heap[o].claims = SetToBag({side[last.s]})
     /\ Answer(last.s) = <<[type |-> "released", status |-> "deleted"]>>
     /\ last.before.heap[o].listeners \subseteq delayed

\* a scheduled loseConnection stays scheduled until it runs and closes
C18_Scheduled ==
  last # Idle =>
    \A t \in last.before.delayed :
       \/ t \in delayed
       \/ last.kind = "loseConnection" /\ last.s = t /\ conn[t] = "closed"

\* C18 Deletion and close signal: a Mailbox leaves the Directory only in a
\* release, by a session that holds it, that removes the one entry left in
\* its claim multiset and is answered deleted, never in another command or
\* a disconnect; in that step a loseConnection is scheduled for every
\* subscriber of the Mailbox, it stays scheduled until it runs, and it runs:
\* the subscriber's connection is closed.
C18_DeletionAndCloseSignal ==
  /\ [](C18_OnlyReleaseDeletes /\ C18_Scheduled)
  /\ \A t \in Sessions : (t \in delayed) ~> (conn[t] = "closed")

\* a release has just deleted a Mailbox with two subscribers, the releasing
\* session and another one whose connection is open
C18_Witness ==
  /\ Deleted # {}
  /\ \A t \in Sessions : t \in delayed /\ conn[t] = "open"
  /\ \A o \in Deleted : last.before.heap[o].listeners = Sessions

\* the sessions, open or not, whose claimed channels of app a contain c
Holders(a, c) ==
  {t \in Sessions : app[t] = a /\ c \in DOMAIN channels[t]}

\* C19 Reference-count consistency: for every app and channel id, the
\* claim multiset of the Mailbox has as many entries as there are sessions,
\* open or disconnected, that hold the id, side by side, and an id with no
\* Mailbox is held by nobody; every Mailbox a session holds is the one the
\* Directory of its app has under that id, never a deleted one.
C19_RefCount ==
  /\ \A a \in Apps, c \in ChannelIds :
       IF c \in DOMAIN mailboxes[a]
         THEN LET claims == heap[mailboxes[a][c]].claims
              IN /\ BagCardinality(claims) = Cardinality(Holders(a, c))
                 /\ \A sd \in Sides :
                      CopiesIn(sd, claims) =
                        Cardinality({t \in Holders(a, c) : side[t] = sd})
       ELSE Holders(a, c) = {}
  /\ \A t \in Sessions : \A c \in DOMAIN channels[t] :
       /\ app[t] # None
       /\ c \in DOMAIN mailboxes[app[t]]
       /\ channels[t][c] = mailboxes[app[t]][c]
       /\ channels[t][c] \in DOMAIN heap
       /\ heap[channels[t][c]].claims # EmptyBag
  /\ DOMAIN heap = {o \in DOMAIN heap : Registered(mailboxes, o)}

\* a session has just released one channel and still holds another, whose
\* Mailbox has two claim entries of one side: its own and that of a session
\* that has disconnected
C19_Witness ==
  /\ ReleaseOf
  /\ Answer(last.s) = <<[type |-> "released", status |-> "waiting"]>>
  /\ \E a \in Apps, c \in ChannelIds \ {last.msg.channelid} :
       /\ c \in DOMAIN mailboxes[a]
       /\ Holders(a, c) = Sessions
       /\ conn[last.s] = "open"
       /\ \E t \in Sessions \ {last.s} : conn[t] = "closed"
       /\ \E sd \in Sides : CopiesIn(sd, heap[mailboxes[a][c]].claims) = 2

\* the release handled last deleted a Mailbox its own session was a
\* subscriber of
ReleasedOwn ==
  /\ ReleaseOf
  /\ \E o \in Deleted : last.s \in last.before.heap[o].listeners

\* C20 Released before close: a release that deletes a Mailbox its own
\* session is subscribed to only schedules the loss of the connection: in
\* that step the response released, status deleted, is written to the
\* session, whose connection is still open, and the channel is gone from
\* its claimed channels; the connection is closed by the scheduled
\* loseConnection in a later step, which writes nothing.
C20_ReleasedBeforeClose ==
  /\ ReleasedOwn =>
       /\ out[last.s] = Acked(last.msg)
                        \o <<[type |-> "released", status |-> "deleted"]>>
       /\ conn[last.s] = "open"
       /\ last.s \in delayed
       /\ last.msg.channelid \notin DOMAIN channels[last.s]
  /\ (last # Idle /\ last.kind = "loseConnection") =>
       /\ last.s \in last.before.delayed
       /\ conn[last.s] = "closed"
       /\ out = NoOutput
       /\ \A c \in DOMAIN channels[last.s] :
             Registered(mailboxes, channels[last.s][c])

\* a session that was the only subscriber of a Mailbox has just released
\* the last claim on it
C20_Witness ==
  /\ ReleasedOwn
  /\ delayed = {last.s}
  /\ channels[last.s] = EmptyMap
  /\ Len(out[last.s]) = 1

\* the connection of a session whose release deleted its Mailbox has just
\* been closed by the scheduled loseConnection
C20_ClosedLater ==
  /\ last # Idle /\ last.kind = "loseConnection"
  /\ last.before.conn[last.s] = "open"
  /\ mailboxes = [a \in Apps |-> EmptyMap]

====
